---- MODULE Spec2Model ----
(***************************************************************************)
(* A model of scratch.ts (kendfrey/scratch): the Stroke combinator         *)
(* algebra, Context.add / clear / draw, and the rasterizer drawLine /      *)
(* drawLinePixel / drawPixel.                                              *)
(*                                                                         *)
(* Numbers.  A JavaScript number is modelled as an exact real: a rational  *)
(* <<n, d>> in lowest terms with d > 0, NaN as <<0, 0>> and +-Infinity as  *)
(* <<1, 0>> and <<-1, 0>>.  The one irrational quantity of the program is  *)
(* the distance d = Math.sqrt(...) of drawLinePixel; the coverage derived  *)
(* from it is kept exactly as a surd p + c * sqrt(q) (see the section      *)
(* "Surds").  IEEE-754 rounding is not modelled.                           *)
(*                                                                         *)
(* Five specifications follow the parts of the program: Spec a Context     *)
(* (add, clear, its two fields, draw), SpecStroke one Stroke and its       *)
(* samples, SpecPixel drawPixel on one pixel, SpecRaster drawLine on one   *)
(* buffer, SpecDouble the start of drawLine on doubles near the underflow  *)
(* threshold.  The geometry helpers of Stroke (arc, ellipse, rotate,       *)
(* matrix and the like) and hsl are not modelled, and of the canvas only   *)
(* the ImageData that draw fills.                                          *)
(***************************************************************************)
EXTENDS Integers, Sequences, FiniteSets, TLC

(***************************************************************************)
(* Rationals                                                               *)
(***************************************************************************)
Abs(n) == IF n < 0 THEN -n ELSE n

RECURSIVE Gcd(_, _)
Gcd(a, b) == IF b = 0 THEN a ELSE Gcd(b, a % b)

\* The rational n/d (d # 0) in lowest terms with a positive denominator.
Q(n, d) ==
    LET g == Gcd(Abs(n), Abs(d))
        s == IF d < 0 THEN -1 ELSE 1
    IN  <<s * (n \div g), s * (d \div g)>>

I(n) == <<n, 1>>

NaN == <<0, 0>>
PosInf == <<1, 0>>
NegInf == <<-1, 0>>
IsFinite(a) == a[2] # 0
IsNaN(a) == a = NaN

Sgn(a) == IF a[1] > 0 THEN 1 ELSE IF a[1] < 0 THEN -1 ELSE 0

\* Three-way comparison of n1/d1 and n2/d2 (d1, d2 > 0) by continued
\* fractions, so that no product is formed.
RECURSIVE CmpFrac(_, _, _, _)
CmpFrac(n1, d1, n2, d2) ==
    LET q1 == n1 \div d1
        q2 == n2 \div d2
        r1 == n1 % d1
        r2 == n2 % d2
    IN  IF q1 < q2 THEN -1
        ELSE IF q1 > q2 THEN 1
        ELSE IF r1 = 0 /\ r2 = 0 THEN 0
        ELSE IF r1 = 0 THEN -1
        ELSE IF r2 = 0 THEN 1
        ELSE CmpFrac(d2, r2, d1, r1)

\* Comparison of two numbers neither of which is NaN.
Cmp(a, b) ==
    IF IsFinite(a) /\ IsFinite(b) THEN CmpFrac(a[1], a[2], b[1], b[2])
    ELSE IF a = b THEN 0
    ELSE IF a = NegInf \/ b = PosInf THEN -1
    ELSE 1

\* a < b, a <= b, ... as JavaScript evaluates them: false when either is NaN.
Lt(a, b) == ~IsNaN(a) /\ ~IsNaN(b) /\ Cmp(a, b) < 0
Le(a, b) == ~IsNaN(a) /\ ~IsNaN(b) /\ Cmp(a, b) <= 0
Gt(a, b) == Lt(b, a)
Ge(a, b) == Le(b, a)

Neg(a) == <<-a[1], a[2]>>

Plus(a, b) ==
    IF IsFinite(a) /\ IsFinite(b)
    THEN LET g == Gcd(a[2], b[2])
             m == a[2] \div g
             k == b[2] \div g
         IN  Q(a[1] * k + b[1] * m, m * b[2])
    ELSE IF IsNaN(a) \/ IsNaN(b) THEN NaN
    ELSE IF IsFinite(a) THEN b
    ELSE IF IsFinite(b) \/ a = b THEN a
    ELSE NaN

Minus(a, b) == Plus(a, Neg(b))

Times(a, b) ==
    IF IsFinite(a) /\ IsFinite(b)
    THEN LET g1 == Gcd(Abs(a[1]), b[2])
             g2 == Gcd(Abs(b[1]), a[2])
         IN  IF a[1] = 0 \/ b[1] = 0 THEN I(0)
             ELSE <<(a[1] \div g1) * (b[1] \div g2), (a[2] \div g2) * (b[2] \div g1)>>
    ELSE IF IsNaN(a) \/ IsNaN(b) \/ Sgn(a) = 0 \/ Sgn(b) = 0 THEN NaN
    ELSE <<Sgn(a) * Sgn(b), 0>>

\* a / b as JavaScript divides: x/0 is +-Infinity, 0/0 is NaN.
Over(a, b) ==
    IF IsFinite(a) /\ IsFinite(b)
    THEN IF b[1] = 0 THEN <<Sgn(a), 0>>
         ELSE Times(a, Q(b[2], b[1]))
    ELSE IF IsNaN(a) \/ IsNaN(b) THEN NaN
    ELSE IF IsFinite(a) THEN I(0)
    ELSE IF IsFinite(b) THEN <<Sgn(a) * (IF Sgn(b) < 0 THEN -1 ELSE 1), 0>>
    ELSE NaN

\* Math.min, Math.max, Math.abs, Math.floor, Math.ceil (NaN is contagious).
MathMin(a, b) == IF IsNaN(a) \/ IsNaN(b) THEN NaN ELSE IF Cmp(a, b) <= 0 THEN a ELSE b
MathMax(a, b) == IF IsNaN(a) \/ IsNaN(b) THEN NaN ELSE IF Cmp(a, b) >= 0 THEN a ELSE b
MathAbs(a) == <<Abs(a[1]), a[2]>>
MathFloor(a) == IF IsFinite(a) THEN I(a[1] \div a[2]) ELSE a
MathCeil(a) == IF IsFinite(a) THEN I(-((-a[1]) \div a[2])) ELSE a

Half == Q(1, 2)

(***************************************************************************)
(* Surds: the real p + c * sqrt(q), as <<p, c, q>> with p, c, q rational   *)
(* and q >= 0.  A value is kept in the form c = 0, q = 0 whenever it is    *)
(* rational, so a surd with c # 0 is irrational.  Within one pixel every   *)
(* surd has the same radicand q, the squared distance of the pixel from    *)
(* the stroke's centre line.                                               *)
(***************************************************************************)
RECURSIVE ISqrtIn(_, _, _)
ISqrtIn(n, lo, hi) ==
    \* the largest k in lo..hi with k * k <= n, given lo * lo <= n
    IF lo = hi THEN lo
    ELSE LET mid == (lo + hi + 1) \div 2
         IN  IF mid <= n \div mid THEN ISqrtIn(n, mid, hi) ELSE ISqrtIn(n, lo, mid - 1)

ISqrt(n) == ISqrtIn(n, 0, IF n < 46340 THEN n ELSE 46340)

IsSquare(n) == LET r == ISqrt(n) IN r * r = n

R(a) == <<a, I(0), I(0)>>

SIsNaN(s) == IsNaN(s[1])

\* p + c * sqrt(q) for a radicand q that is not a rational square.
Surd(p, c, q) ==
    IF IsNaN(p) \/ IsNaN(c) \/ IsNaN(q) THEN R(NaN)
    ELSE IF c[1] = 0 THEN R(p)
    ELSE <<p, c, q>>

\* Math.sqrt of a finite rational q >= 0: rational when q is a square.
MathSqrt(q) ==
    IF IsSquare(q[1]) /\ IsSquare(q[2])
    THEN R(Q(ISqrt(q[1]), ISqrt(q[2])))
    ELSE <<I(0), I(1), q>>

\* The radicand two surds share.
Rad(s, t) == IF s[2][1] # 0 THEN s[3] ELSE t[3]

SNeg(s) == <<Neg(s[1]), Neg(s[2]), s[3]>>
SAdd(s, t) == Surd(Plus(s[1], t[1]), Plus(s[2], t[2]), Rad(s, t))
SSub(s, t) == SAdd(s, SNeg(t))
SMul(s, t) ==
    LET q == Rad(s, t)
    IN  Surd(Plus(Times(s[1], t[1]), Times(Times(s[2], t[2]), q)),
             Plus(Times(s[1], t[2]), Times(s[2], t[1])), q)

\* s / t: by the conjugate of t when t is irrational.
SDivConj(num, norm, q) == Surd(Over(num[1], norm), Over(num[2], norm), q)

SDiv(s, t) ==
    IF t[2][1] = 0
    THEN Surd(Over(s[1], t[1]), Over(s[2], t[1]), s[3])
    ELSE SDivConj(SMul(s, <<t[1], Neg(t[2]), t[3]>>),
                  Minus(Times(t[1], t[1]), Times(Times(t[2], t[2]), t[3])), t[3])

\* The sign of p + c * sqrt(q) when p and c have opposite signs, u = |p / c|:
\* |p| against |c| * sqrt(q) is u against q / u.
SSgnMixed(p, u, q) == Sgn(p) * Cmp(u, Over(q, u))

\* The sign of a surd that is not NaN.
SSgn(s) ==
    IF s[2][1] = 0 THEN Sgn(s[1])
    ELSE IF s[1][1] = 0 THEN Sgn(s[2])
    ELSE IF Sgn(s[1]) = Sgn(s[2]) THEN Sgn(s[1])
    ELSE SSgnMixed(s[1], MathAbs(Over(s[1], s[2])), s[3])

\* Comparisons as JavaScript evaluates them (false on NaN).
SLt(s, t) == ~SIsNaN(s) /\ ~SIsNaN(t) /\ SSgn(SSub(s, t)) < 0
SLe(s, t) == ~SIsNaN(s) /\ ~SIsNaN(t) /\ SSgn(SSub(s, t)) <= 0
SGe(s, t) == SLe(t, s)
SEq(s, t) == ~SIsNaN(s) /\ ~SIsNaN(t) /\ SSgn(SSub(s, t)) = 0

\* The largest integer k in lo..hi with k <= s, given lo <= s.
RECURSIVE SFloorIn(_, _, _)
SFloorIn(s, lo, hi) ==
    IF lo = hi THEN lo
    ELSE IF SLe(R(I((lo + hi + 1) \div 2)), s)
    THEN SFloorIn(s, (lo + hi + 1) \div 2, hi)
    ELSE SFloorIn(s, lo, ((lo + hi + 1) \div 2) - 1)

\* Math.floor of a surd known to lie in [0, 256).
SFloorByte(s) == IF SIsNaN(s) THEN NaN ELSE I(SFloorIn(s, 0, 255))

\* f or f + 1, whichever is nearer to a number with floor f that compares
\* as h (-1, 0, 1) with f + 1/2; the even one on a tie.
roundTie(f, h) ==
    IF h < 0 THEN f
    ELSE IF h > 0 THEN f + 1
    ELSE IF f % 2 = 0 THEN f ELSE f + 1

roundHalfEven(s, f) == roundTie(f, SSgn(SSub(s, R(Plus(I(f), Half)))))

\* The conversion of a number stored into a Uint8ClampedArray: NaN is 0, the
\* value is clamped to 0..255 and rounded to the nearest integer, ties to even.
ToUint8Clamped(s) ==
    IF SIsNaN(s) \/ SLe(s, R(I(0))) THEN 0
    ELSE IF SGe(s, R(I(255))) THEN 255
    ELSE roundHalfEven(s, SFloorIn(s, 0, 254))

(***************************************************************************)
(* Scalar helpers of scratch.ts                                            *)
(***************************************************************************)
\* lerp(t, a, b) on rationals.
lerp(t, a, b) == Plus(Times(Minus(I(1), t), a), Times(t, b))

\* lerp(t, a, b) where t, a or b derive from the coverage (surds).
lerpS(t, a, b) == SAdd(SMul(SSub(R(I(1)), t), a), SMul(t, b))

\* clamp(t, a, b): the bounds are swapped when a > b.
clamp3(t, a, b) ==
    LET lo == IF Gt(a, b) THEN b ELSE a
        hi == IF Gt(a, b) THEN a ELSE b
    IN  MathMax(MathMin(t, hi), lo)

\* clamp(t): the bounds default to 0 and 1.
clamp(t) == clamp3(t, I(0), I(1))

\* clamp(t) of a surd.
clampS(t) ==
    IF SIsNaN(t) THEN t
    ELSE IF SGe(t, R(I(1))) THEN R(I(1))
    ELSE IF SLe(t, R(I(0))) THEN R(I(0))
    ELSE t

\* bezier(t, values): De Casteljau by recursion on the two slices.
RECURSIVE bezier(_, _)
bezier(t, values) ==
    IF Len(values) = 1
    THEN values[1]
    ELSE lerp(t, bezier(t, SubSeq(values, 1, Len(values) - 1)),
                 bezier(t, SubSeq(values, 2, Len(values))))
(***************************************************************************)
(* The pixel buffer: an ImageData, [width, height, data], data the flat    *)
(* RGBA byte array indexed from 0.                                         *)
(***************************************************************************)
createImageData(w, h) ==
    [width |-> w, height |-> h, data |-> [i \in 0 .. (w * h * 4 - 1) |-> 0]]

\* The RGBA bytes of pixel (x, y).
PixelAt(img, x, y) ==
    LET i == (y * img.width + x) * 4
    IN  <<img.data[i], img.data[i + 1], img.data[i + 2], img.data[i + 3]>>

InImage(img, x, y) == x >= 0 /\ x < img.width /\ y >= 0 /\ y < img.height

\* The first branch of drawPixel: the new pixel replaces the old one.  The
\* number stored at i + j, j = 0 .. 3.
overwriteValue(j, r, g, b, a, blend) ==
    IF j = 0 THEN R(r)
    ELSE IF j = 1 THEN R(g)
    ELSE IF j = 2 THEN R(b)
    ELSE R(SFloorByte(SMul(SMul(R(a), blend), R(I(255)))))

drawPixelOverwrite(d, i, r, g, b, a, blend) ==
    [j \in DOMAIN d |->
        IF j >= i /\ j <= i + 3
        THEN ToUint8Clamped(overwriteValue(j - i, r, g, b, a, blend))
        ELSE d[j]]

\* The second branch of drawPixel: the old pixel is fully opaque.  The
\* variable a is reassigned (a2) before the colour channels are computed
\* from it; the number stored at i + j, j = 0 .. 3, over the byte old.
blendValue(j, old, r, g, b, blend, a2) ==
    IF j = 3 THEN R(SFloorByte(SMul(a2, R(I(255)))))
    ELSE SDiv(lerpS(blend, R(I(old)),
                    SMul(R(IF j = 0 THEN r ELSE IF j = 1 THEN g ELSE b), a2)), a2)

drawPixelBlendWith(d, i, r, g, b, blend, a2) ==
    [j \in DOMAIN d |->
        IF j >= i /\ j <= i + 3
        THEN ToUint8Clamped(blendValue(j - i, d[j], r, g, b, blend, a2))
        ELSE d[j]]

drawPixelBlend(d, i, r, g, b, a, blend, oldA) ==
    drawPixelBlendWith(d, i, r, g, b, blend, lerpS(blend, R(oldA), R(a)))

\* Math.floor(clamp(c) * 255)
floorByte(c) == MathFloor(Times(clamp(c), I(255)))

\* drawPixel without its tests on blend and oldA: a variant that always
\* replaces the old pixel.
drawPixelAlways(img, i, r, g, b, a, blend, oldA) ==
    [img EXCEPT !.data = drawPixelOverwrite(img.data, i, r, g, b, a, blend)]

\* drawPixel from the computation of oldA on: i is the index of the pixel,
\* r, g, b are on the scale of bytes and a is clamped.
drawPixelAt(img, i, r, g, b, a, blend, oldA) ==
    IF SGe(blend, R(oldA))
    THEN [img EXCEPT !.data = drawPixelOverwrite(img.data, i, r, g, b, a, blend)]
    ELSE IF oldA = I(1)
    THEN [img EXCEPT !.data = drawPixelBlend(img.data, i, r, g, b, a, blend, oldA)]
    ELSE img

\* drawPixel(data, x, y, r, g, b, a, blend): the image after the call.
\* x and y are integers, r, g, b, a rationals, blend a surd.
drawPixel(img, x, y, r, g, b, a, blend) ==
    IF x < 0 \/ x >= img.width \/ y < 0 \/ y >= img.height
    THEN img
    ELSE drawPixelAt(img, (y * img.width + x) * 4, floorByte(r), floorByte(g),
                     floorByte(b), clamp(a), blend,
                     Q(img.data[(y * img.width + x) * 4 + 3], 255))

(***************************************************************************)
(* The rasterizer.  A LinePoint is a record [x, y, r, g, b, a, w] of       *)
(* rationals.  The raster state threaded through one drawLine call is      *)
(* [img, visits]: the image and the log of the drawLinePixel calls made,   *)
(* in order.                                                               *)
(***************************************************************************)
\* The projection of pixel (x, y) on the line through start and end.
projection(x, y, start, end) ==
    Over(Plus(Times(Minus(end.x, start.x), Minus(I(x), start.x)),
              Times(Minus(end.y, start.y), Minus(I(y), start.y))),
         Plus(Times(Minus(end.x, start.x), Minus(end.x, start.x)),
              Times(Minus(end.y, start.y), Minus(end.y, start.y))))

\* Math.sqrt(ex ** 2 + ey ** 2)
distance(ex, ey) == MathSqrt(Plus(Times(ex, ex), Times(ey, ey)))

\* The coverage of a pixel at distance d from the centre of a stroke that
\* is tw wide there.
coverage(d, tw) ==
    clampS(SMul(SSub(R(Plus(Times(MathMax(tw, I(1)), Half), Half)), d),
                R(MathMin(tw, I(1)))))

\* An interpolated colour channel, premultiplied and divided back.
channelAt(t, start, end, c, ta) ==
    Over(lerp(t, Times(start[c], start.a), Times(end[c], end.a)), ta)

\* The values drawLinePixel computes for pixel (x, y), given the projection
\* t0, its override t1, its clamped value t and the interpolated ta and tw.
linePixelAt(x, y, start, end, t0, t1, t, ta, tw) ==
    [t0 |-> t0, t1 |-> t1, isStartCap |-> Lt(t1, I(0)), t |-> t,
     tr |-> channelAt(t, start, end, "r", ta),
     tg |-> channelAt(t, start, end, "g", ta),
     tb |-> channelAt(t, start, end, "b", ta),
     ta |-> ta, tw |-> tw,
     blend |-> coverage(distance(Minus(I(x), lerp(t, start.x, end.x)),
                                 Minus(I(y), lerp(t, start.y, end.y))), tw)]

linePixelClamped(x, y, start, end, t0, t1, t) ==
    linePixelAt(x, y, start, end, t0, t1, t, lerp(t, start.a, end.a),
                MathMax(lerp(t, start.w, end.w), I(0)))

linePixelOverridden(x, y, start, end, t0, t1) ==
    linePixelClamped(x, y, start, end, t0, t1, clamp(t1))

\* if (dx === 0) t = 0
linePixelProjected(x, y, start, end, t0) ==
    linePixelOverridden(x, y, start, end, t0,
                        IF Minus(end.x, start.x) = I(0) THEN I(0) ELSE t0)

\* The values drawLinePixel computes for pixel (x, y) of the normalised
\* segment start -> end, up to the coverage `blend`.
linePixel(x, y, start, end) ==
    linePixelProjected(x, y, start, end, projection(x, y, start, end))

\* The pixel of the image that the normalised pixel (x, y) stands for.
truePixel(x, y, steep, reverse) ==
    IF steep THEN <<y, IF reverse THEN -x ELSE x>>
    ELSE <<IF reverse THEN -x ELSE x, y>>

\* drawLinePixel once the pixel is or is not composited: the raster state
\* after the call and the value returned.
drawLinePixelDone(rs, x, y, px, dir, v, zero, img2) ==
    [rs |-> [img |-> img2,
             visits |-> Append(rs.visits,
                [x |-> x, y |-> y, dir |-> dir, px |-> px, zero |-> zero,
                 isStartCap |-> v.isStartCap, drawn |-> ~zero /\ ~v.isStartCap,
                 t |-> v.t1, blend |-> v.blend,
                 old |-> IF InImage(rs.img, px[1], px[2])
                         THEN PixelAt(rs.img, px[1], px[2]) ELSE <<>>,
                 new |-> IF InImage(rs.img, px[1], px[2])
                         THEN PixelAt(img2, px[1], px[2]) ELSE <<>>])],
     ret |-> ~zero]

\* if (blend === 0) return false; if (isStartCap) return true; drawPixel(...)
drawLinePixelTested(rs, x, y, px, dir, v, zero) ==
    drawLinePixelDone(rs, x, y, px, dir, v, zero,
        IF ~zero /\ ~v.isStartCap
        THEN drawPixel(rs.img, px[1], px[2], v.tr, v.tg, v.tb, v.ta, v.blend)
        ELSE rs.img)

drawLinePixelComputed(rs, x, y, px, dir, v) ==
    drawLinePixelTested(rs, x, y, px, dir, v, SEq(v.blend, R(I(0))))

\* drawLinePixel(data, x, y, start, end, steep, reverse)
drawLinePixel(rs, x, y, start, end, steep, reverse, dir) ==
    drawLinePixelComputed(rs, x, y, truePixel(x, y, steep, reverse), dir,
                          linePixel(x, y, start, end))

\* e, with v evaluated first.  TLC evaluates the arguments of an operator
\* only when they are used; a loop of the program has computed the state of
\* one iteration before it starts the next.
Strict(v, e) == IF v = v THEN e ELSE e

\* One of the two inner loops of drawLine: from y on, in steps of `step`,
\* until drawLinePixel returns false.
RECURSIVE scan(_, _, _, _, _, _, _, _)
RECURSIVE scanContinue(_, _, _, _, _, _, _, _)
scanContinue(r, x, y, step, start, end, steep, reverse) ==
    IF r.ret THEN scan(r.rs, x, y + step, step, start, end, steep, reverse)
    ELSE r.rs

scan(rs, x, y, step, start, end, steep, reverse) ==
    scanContinue(drawLinePixel(rs, x, y, start, end, steep, reverse,
                               IF step > 0 THEN "down" ELSE "up"),
                 x, y, step, start, end, steep, reverse)

\* The endpoints of drawLine after the axis swap and the direction flip.
swapXY(p) == [p EXCEPT !.x = p.y, !.y = p.x]
negX(p) == [p EXCEPT !.x = Neg(p.x)]

isSteep(start, end) ==
    Gt(MathAbs(Minus(start.y, end.y)), MathAbs(Minus(start.x, end.x)))

isReverse(start, end) == Gt(start.x, end.x)

normaliseSwapped(steep, start, end) ==
    [steep |-> steep, reverse |-> isReverse(start, end),
     start |-> IF isReverse(start, end) THEN negX(start) ELSE start,
     end |-> IF isReverse(start, end) THEN negX(end) ELSE end]

normalise(start, end) ==
    IF isSteep(start, end)
    THEN normaliseSwapped(TRUE, swapXY(start), swapXY(end))
    ELSE normaliseSwapped(FALSE, start, end)

lineSlope(start, end) ==
    IF end.x = start.x THEN I(0)
    ELSE Over(Minus(end.y, start.y), Minus(end.x, start.x))

lineMinX(start) == MathFloor(Minus(start.x, Times(start.w, Half)))
lineMaxX(end) == MathFloor(Plus(end.x, Times(end.w, Half)))

\* The Y coordinate of the middle of the stroke in column x.
lineYAt(x, start, end) ==
    clamp3(Plus(start.y, Times(lineSlope(start, end), Minus(I(x), start.x))),
           start.y, end.y)

\* The outer loop of drawLine from column x on.
RECURSIVE columns(_, _, _, _, _, _, _)
RECURSIVE columnsNext(_, _, _, _, _, _, _)
columnsNext(up, x, maxX, start, end, steep, reverse) ==
    Strict(up, columns(up, x + 1, maxX, start, end, steep, reverse))

columnScans(rs, x, lineY, start, end, steep, reverse) ==
    scan(scan(rs, x, MathCeil(lineY)[1], 1, start, end, steep, reverse),
         x, MathFloor(lineY)[1], -1, start, end, steep, reverse)

columns(rs, x, maxX, start, end, steep, reverse) ==
    IF x > maxX THEN rs
    ELSE columnsNext(columnScans(rs, x, lineYAt(x, start, end),
                                 start, end, steep, reverse),
                     x, maxX, start, end, steep, reverse)

\* drawLine after the swap and the flip.  The loop runs no iteration when a
\* bound is NaN (x <= maxX is false).
drawLineNormalised(img, n, minX, maxX) ==
    IF IsFinite(minX) /\ IsFinite(maxX)
    THEN columns([img |-> img, visits |-> <<>>], minX[1], maxX[1],
                 n.start, n.end, n.steep, n.reverse)
    ELSE [img |-> img, visits |-> <<>>]

drawLineLoop(img, n) == drawLineNormalised(img, n, lineMinX(n.start), lineMaxX(n.end))

\* drawLine(data, start, end): the raster state after the call.
drawLine(img, start, end) == drawLineLoop(img, normalise(start, end))

(***************************************************************************)
(* Strokes.  A LinePointPartial is a function from the properties it owns  *)
(* to their values; a property may be owned with the value undefined.  A   *)
(* Stroke is the expression that built it: its evaluator is evaluate.      *)
(* The functions a caller passes to parametric, transform and slide are    *)
(* named, and applied by applyParametric, applyTransform and applySlide.   *)
(***************************************************************************)
Props == {"x", "y", "r", "g", "b", "a", "w"}

Undefined == <<>>

\* The number a property value is in arithmetic: undefined is NaN.
ToNumber(v) == IF v = Undefined THEN NaN ELSE v

\* p[k], undefined when p does not own k.
Get(p, k) == IF k \in DOMAIN p THEN p[k] ELSE Undefined

\* Object.assign({}, under, over): every own property of over is copied,
\* whatever its value.
ObjectAssign(under, over) ==
    [k \in (DOMAIN under) \cup (DOMAIN over) |->
        IF k \in DOMAIN over THEN over[k] ELSE under[k]]

\* {}: the point the evaluator of new Stroke() returns.
EmptyPoint == [k \in {} |-> Undefined]

\* The functions f of parametric(f) the model draws from.
applyParametric(f, t) ==
    CASE f = "ramp" -> [x |-> Times(I(4), t), a |-> Minus(I(1), Times(Half, t))]
      [] f = "holes" -> [x |-> Undefined, w |-> I(2)]
      [] OTHER -> EmptyPoint

\* The functions f of transform(f) the model draws from.
applyTransform(f, point) ==
    CASE f = "mirror" -> [x |-> Neg(ToNumber(Get(point, "x")))]
      [] f = "forget" -> [y |-> Undefined]
      [] OTHER -> EmptyPoint

\* The functions f of slide(f) the model draws from; cut(t0, t1) slides by
\* t * (t1 - t0) + t0.
applySlide(f, t) ==
    CASE f.fn = "cut" -> Plus(Times(t, Minus(f.t1, f.t0)), f.t0)
      [] f.fn = "reverse" -> Minus(I(1), t)
      [] OTHER -> t

NewStroke == [op |-> "new"]
sequence(strokes) == [op |-> "sequence", strokes |-> strokes]
parametric(this, f) == [op |-> "parametric", this |-> this, f |-> f]
transform(this, f) == [op |-> "transform", this |-> this, f |-> f]
slide(this, f) == [op |-> "slide", this |-> this, f |-> f]
cut(this, t0, t1) == slide(this, [fn |-> "cut", t0 |-> t0, t1 |-> t1])
fix(this, point) == [op |-> "fix", this |-> this, point |-> point]
bezierStroke(this, points) == [op |-> "bezier", this |-> this, points |-> points]
line(this, start, end) == bezierStroke(this, <<start, end>>)

\* A variant of sequenceParam that does not rebase the parameter.
sequenceParamGlobal(t, n) == Times(t, I(n))

\* The stroke that sequence dispatches to, and the parameter it receives.
sequenceIndex(t, n) == clamp3(MathFloor(Times(t, I(n))), I(0), I(n - 1))[1]
sequenceParam(t, n) == Minus(Times(t, I(n)), I(sequenceIndex(t, n)))

\* A variant of bezierProps that looks at the first control point only.
bezierPropsFirst(points) == DOMAIN points[1]

\* The properties every control point owns.
bezierProps(points) ==
    {p \in DOMAIN points[1] : \A i \in 1 .. Len(points) : p \in DOMAIN points[i]}

bezierResult(t, points) ==
    [p \in bezierProps(points) |->
        bezier(t, [i \in 1 .. Len(points) |-> ToNumber(Get(points[i], p))])]

\* stroke.evaluate(t)
RECURSIVE evaluate(_, _)
evaluate(stroke, t) ==
    CASE stroke.op = "new" -> EmptyPoint
      [] stroke.op = "sequence" ->
            LET n == Len(stroke.strokes)
            IN  evaluate(stroke.strokes[sequenceIndex(t, n) + 1], sequenceParam(t, n))
      [] stroke.op = "parametric" ->
            ObjectAssign(evaluate(stroke.this, t), applyParametric(stroke.f, t))
      [] stroke.op = "transform" ->
            LET point == evaluate(stroke.this, t)
            IN  ObjectAssign(point, applyTransform(stroke.f, point))
      [] stroke.op = "slide" -> evaluate(stroke.this, applySlide(stroke.f, t))
      [] stroke.op = "fix" -> ObjectAssign(evaluate(stroke.this, t), stroke.point)
      [] stroke.op = "bezier" ->
            ObjectAssign(evaluate(stroke.this, t), bezierResult(t, stroke.points))

\* The number of combinators a stroke was built with, along its longest chain.
RECURSIVE strokeDepth(_)
strokeDepth(stroke) ==
    IF stroke.op = "new" THEN 0
    ELSE IF stroke.op = "sequence"
    THEN 1 + strokeDepth(stroke.strokes[
             CHOOSE i \in 1 .. Len(stroke.strokes) :
               \A j \in 1 .. Len(stroke.strokes) :
                 strokeDepth(stroke.strokes[j]) <= strokeDepth(stroke.strokes[i])])
    ELSE 1 + strokeDepth(stroke.this)

(***************************************************************************)
(* Context.draw                                                            *)
(***************************************************************************)
\* Context.default as constructed.
DefaultPoint ==
    [x |-> I(0), y |-> I(0), r |-> I(0), g |-> I(0), b |-> I(0), a |-> I(1), w |-> I(1)]

\* Object.assign({}, this.default, stroke.evaluate(t))
resolvePoint(default, sample) == ObjectAssign(default, sample)

\* The values of a resolved point as drawLine computes with them.
numbers(point) == [k \in Props |-> ToNumber(Get(point, k))]

\* A variant of push that adds at the front.
pushFront(strokes, new) == new \o strokes

\* this._strokes.push(...strokes)
push(strokes, new) == strokes \o new

\* A variant of callerEnd: lineEnd itself is passed, not a copy.
callerEndAliased(lineStart, lineEnd) ==
    normalise(numbers(lineStart), numbers(lineEnd)).end

\* drawLine swaps and negates the coordinates of the two objects it is given.
\* The objects of the caller after drawLine(data, lineStart,
\* Object.assign({}, lineEnd)): lineStart is the object drawLine changed,
\* lineEnd is untouched because a copy was passed.
callerStart(lineStart, lineEnd) == normalise(numbers(lineStart), numbers(lineEnd)).start
callerEnd(lineStart, lineEnd) == lineEnd

NoImage == createImageData(0, 0)

(***************************************************************************)
(* State                                                                   *)
(***************************************************************************)
VARIABLES
    \* Context
    strokes,        \* this._strokes
    segmentation,   \* this.segmentation
    default,        \* this.default
    pc,             \* where draw is: "idle" outside of draw
    data,           \* the ImageData of the draw in progress
    index,          \* the position of the for-of loop in this._strokes (from 1)
    t,              \* the loop variable t of the draw in progress
    lineStart,      \* the object lineStart
    lineEnd,        \* the object lineEnd
    calls,          \* history: the drawLine calls of the draw in progress
    added,          \* history: the strokes added since the last clear
    rendered,       \* history: the image the last draw put on the canvas,
                    \* while the context has not been set since
    \* one Stroke and its samples
    stroke,         \* the stroke built so far
    input,          \* the parameter of the last sample (NaN: none yet)
    output,         \* stroke.evaluate(input)
    resolved,       \* output merged over the default point
    \* one pixel under drawPixel
    pixel,          \* a 1 x 1 ImageData
    written,        \* history: the last drawPixel call and the pixel before it
    opaque,         \* history: every drawPixel call so far had a = 1
    writes,         \* history: the number of drawPixel calls so far
    \* one buffer under drawLine
    buffer,         \* the ImageData drawLine is called on
    whole,          \* a second ImageData, given the stroke as one segment
    rpc,            \* where the stroke under test is
    join,           \* the stroke under test: its points p0, p1, p2
    lastCall,       \* history: the last drawLine call on buffer
    earlier,        \* history: the number of earlier segments drawn
    \* one drawLine call on doubles
    projected       \* history: what the call computed of its two points

contextVars ==
    <<strokes, segmentation, default, pc, data, index, t, lineStart, lineEnd,
      calls, added, rendered>>
strokeVars == <<stroke, input, output, resolved>>
pixelVars == <<pixel, written, opaque, writes>>
rasterVars == <<buffer, whole, rpc, join, lastCall, earlier>>
doubleVars == <<projected>>
vars == <<contextVars, strokeVars, pixelVars, rasterVars, doubleVars>>

(***************************************************************************)
(* Bounds and the inputs the model draws from                              *)
(***************************************************************************)
W == 5
H == 4
MaxStrokes == 2
MaxSeg == 2
MaxDepth == 2
MaxWrites == 3
MaxEarlier == 1

\* Context.segmentation as constructed.
DefaultSegmentation == 256

Red == [r |-> I(1), g |-> I(0), b |-> I(0)]
Green == [r |-> I(0), g |-> I(1), b |-> I(0)]

\* An opaque red horizontal line of width 1 between integer positions.
HLine ==
    fix(line(NewStroke, [x |-> I(1), y |-> I(1)], [x |-> I(3), y |-> I(1)]),
        [r |-> I(1), g |-> I(0), b |-> I(0), a |-> I(1), w |-> I(1)])

\* A green line drawn upwards and to the left, steeper than 45 degrees.
Slant ==
    line(NewStroke, [x |-> I(3), y |-> I(3), g |-> I(1)],
                    [x |-> I(2), y |-> I(0), g |-> I(1)])

Curves == {HLine, Slant}
Defaults == {DefaultPoint, [DefaultPoint EXCEPT !.w = I(2)]}

\* The lists of strokes one add call may pass.
AddLists == {<<c>> : c \in Curves} \cup {<<c1, c2>> : c1 \in Curves, c2 \in Curves}

(***************************************************************************)
(* Context: add, clear, the two public fields, and draw.  JavaScript runs  *)
(* draw to completion, so nothing else happens while pc # "idle"; draw is  *)
(* split at its drawLine calls so that each call is a step.                *)
(***************************************************************************)
ContextInit ==
    /\ strokes = <<>>
    /\ segmentation = DefaultSegmentation
    /\ default = DefaultPoint
    /\ pc = "idle"
    /\ data = NoImage
    /\ index = 0
    /\ t = 0
    /\ lineStart = DefaultPoint
    /\ lineEnd = DefaultPoint
    /\ calls = <<>>
    /\ added = <<>>
    /\ rendered = NoImage

drawLocals == <<data, index, t, lineStart, lineEnd, calls>>

\* add(...strokes)
Add(new) ==
    /\ pc = "idle"
    /\ Len(strokes) + Len(new) <= MaxStrokes
    /\ strokes' = push(strokes, new)
    /\ added' = added \o new
    /\ rendered' = NoImage
    /\ UNCHANGED <<segmentation, default, pc, drawLocals>>
    /\ UNCHANGED <<strokeVars, pixelVars, rasterVars, doubleVars>>

\* clear()
Clear ==
    /\ pc = "idle"
    /\ strokes' = <<>>
    /\ added' = <<>>
    /\ rendered' = NoImage
    /\ UNCHANGED <<segmentation, default, pc, drawLocals>>
    /\ UNCHANGED <<strokeVars, pixelVars, rasterVars, doubleVars>>

\* context.segmentation = n
SetSegmentation(n) ==
    /\ pc = "idle"
    /\ segmentation' = n
    /\ rendered' = NoImage
    /\ UNCHANGED <<strokes, added, default, pc, drawLocals>>
    /\ UNCHANGED <<strokeVars, pixelVars, rasterVars, doubleVars>>

\* context.default = point
SetDefault(point) ==
    /\ pc = "idle"
    /\ default' = point
    /\ rendered' = NoImage
    /\ UNCHANGED <<strokes, added, segmentation, pc, drawLocals>>
    /\ UNCHANGED <<strokeVars, pixelVars, rasterVars, doubleVars>>

\* draw(ctx), up to the loop over the strokes.
DrawBegin ==
    /\ pc = "idle"
    /\ segmentation <= MaxSeg
    /\ data' = createImageData(W, H)
    /\ index' = 1
    /\ calls' = <<>>
    /\ pc' = "stroke"
    /\ UNCHANGED <<strokes, added, segmentation, default, rendered, t, lineStart, lineEnd>>
    /\ UNCHANGED <<strokeVars, pixelVars, rasterVars, doubleVars>>

\* for (const stroke of this._strokes): the next stroke and its lineStart,
\* or the end of the loop.
DrawStroke ==
    /\ pc = "stroke"
    /\ IF index <= Len(strokes)
       THEN /\ lineStart' = resolvePoint(default, evaluate(strokes[index], I(0)))
            /\ pc' = "cap"
       ELSE /\ pc' = "present"
            /\ UNCHANGED lineStart
    /\ UNCHANGED <<strokes, added, segmentation, default, rendered, data, index, t,
                   lineEnd, calls>>
    /\ UNCHANGED <<strokeVars, pixelVars, rasterVars, doubleVars>>

\* drawLine(data, Object.assign({}, lineStart), Object.assign({}, lineStart))
DrawCap ==
    /\ pc = "cap"
    /\ data' = drawLine(data, numbers(lineStart), numbers(lineStart)).img
    /\ calls' = Append(calls, [stroke |-> index, k |-> 0,
                               start |-> lineStart, end |-> lineStart])
    /\ t' = 1
    /\ pc' = "loop"
    /\ UNCHANGED <<strokes, added, segmentation, default, rendered, index, lineStart,
                   lineEnd>>
    /\ UNCHANGED <<strokeVars, pixelVars, rasterVars, doubleVars>>

\* for (let t = 1; t <= this.segmentation; t++): the test, and lineEnd.
DrawLoop ==
    /\ pc = "loop"
    /\ IF t <= segmentation
       THEN /\ lineEnd' = resolvePoint(default,
                                       evaluate(strokes[index], Q(t, segmentation)))
            /\ pc' = "segment"
            /\ UNCHANGED index
       ELSE /\ index' = index + 1
            /\ pc' = "stroke"
            /\ UNCHANGED lineEnd
    /\ UNCHANGED <<strokes, added, segmentation, default, rendered, data, t, lineStart,
                   calls>>
    /\ UNCHANGED <<strokeVars, pixelVars, rasterVars, doubleVars>>

\* drawLine(data, lineStart, Object.assign({}, lineEnd))
DrawSegment ==
    /\ pc = "segment"
    /\ data' = drawLine(data, numbers(lineStart), numbers(lineEnd)).img
    /\ calls' = Append(calls, [stroke |-> index, k |-> t,
                               start |-> lineStart, end |-> lineEnd])
    /\ lineStart' = callerStart(lineStart, lineEnd)
    /\ lineEnd' = callerEnd(lineStart, lineEnd)
    /\ pc' = "advance"
    /\ UNCHANGED <<strokes, added, segmentation, default, rendered, index, t>>
    /\ UNCHANGED <<strokeVars, pixelVars, rasterVars, doubleVars>>

\* lineStart = lineEnd; t++
DrawAdvance ==
    /\ pc = "advance"
    /\ lineStart' = lineEnd
    /\ t' = t + 1
    /\ pc' = "loop"
    /\ UNCHANGED <<strokes, added, segmentation, default, rendered, data, index,
                   lineEnd, calls>>
    /\ UNCHANGED <<strokeVars, pixelVars, rasterVars, doubleVars>>

\* putImageData and drawImage: the image goes to the canvas, and the locals
\* of draw are gone.
DrawEnd ==
    /\ pc = "present"
    /\ rendered' = data
    /\ data' = NoImage
    /\ index' = 0
    /\ t' = 0
    /\ lineStart' = DefaultPoint
    /\ lineEnd' = DefaultPoint
    /\ calls' = <<>>
    /\ pc' = "idle"
    /\ UNCHANGED <<strokes, added, segmentation, default>>
    /\ UNCHANGED <<strokeVars, pixelVars, rasterVars, doubleVars>>

Next ==
    \/ \E new \in AddLists : Add(new)
    \/ Clear
    \/ \E n \in 0 .. MaxSeg : SetSegmentation(n)
    \/ \E point \in Defaults : SetDefault(point)
    \/ DrawBegin
    \/ DrawStroke
    \/ DrawCap
    \/ DrawLoop
    \/ DrawSegment
    \/ DrawAdvance
    \/ DrawEnd

(***************************************************************************)
(* One Stroke: the combinators applied to it, and its samples.             *)
(***************************************************************************)
ControlA == [x |-> I(0), y |-> I(0)]
ControlB == [x |-> I(4), y |-> I(2), w |-> I(3)]
ControlC == [x |-> I(2), y |-> I(4), w |-> I(1)]

LineAB == line(NewStroke, ControlA, ControlB)
LineBC == line(NewStroke, ControlB, ControlC)

ParametricFns == {"ramp", "holes"}
TransformFns == {"mirror", "forget"}
SlideFns == {[fn |-> "reverse"]}
CutBounds == {<<Half, I(1)>>, <<I(1), I(0)>>}
FixPoints == {[w |-> I(2)], [x |-> Undefined], [r |-> I(1), a |-> Half]}
ControlLists == {<<ControlB>>, <<ControlA, ControlB, ControlC>>, <<ControlB, ControlC>>}
LineEnds == {<<ControlA, ControlB>>, <<ControlC, ControlA>>}
SequenceLists(s) == {<<s>>, <<s, LineBC>>, <<LineAB, s>>, <<LineAB, s, LineBC>>}
Parameters ==
    {Q(-1, 2), I(0), Q(1, 4), Q(1, 3), Half, Q(2, 3), Q(3, 4), I(1), Q(3, 2)}

StrokeInit ==
    /\ stroke = NewStroke
    /\ input = NaN
    /\ output = EmptyPoint
    /\ resolved = EmptyPoint

\* A combinator gives a new stroke, of which nothing is sampled yet.
Build(new) ==
    /\ strokeDepth(stroke) < MaxDepth
    /\ stroke' = new
    /\ input' = NaN
    /\ output' = EmptyPoint
    /\ resolved' = EmptyPoint
    /\ UNCHANGED <<contextVars, pixelVars, rasterVars, doubleVars>>

Sequence(list) == Build(sequence(list))
Parametric(f) == Build(parametric(stroke, f))
Transform(f) == Build(transform(stroke, f))
Slide(f) == Build(slide(stroke, f))
Cut(t0, t1) == Build(cut(stroke, t0, t1))
Fix(point) == Build(fix(stroke, point))
Bezier(points) == Build(bezierStroke(stroke, points))
Line(start, end) == Build(line(stroke, start, end))

\* stroke.evaluate(u), and the point draw resolves it to.
Sample(u) ==
    /\ input' = u
    /\ output' = evaluate(stroke, u)
    /\ resolved' = resolvePoint(default, evaluate(stroke, u))
    /\ UNCHANGED stroke
    /\ UNCHANGED <<contextVars, pixelVars, rasterVars, doubleVars>>

NextStroke ==
    \/ \E list \in SequenceLists(stroke) : Sequence(list)
    \/ \E f \in ParametricFns : Parametric(f)
    \/ \E f \in TransformFns : Transform(f)
    \/ \E f \in SlideFns : Slide(f)
    \/ \E c \in CutBounds : Cut(c[1], c[2])
    \/ \E point \in FixPoints : Fix(point)
    \/ \E points \in ControlLists : Bezier(points)
    \/ \E e \in LineEnds : Line(e[1], e[2])
    \/ \E u \in Parameters : Sample(u)

(***************************************************************************)
(* One pixel: drawPixel called again and again on a 1 x 1 image.           *)
(***************************************************************************)
Teal == [r |-> I(0), g |-> Half, b |-> I(1)]
Colours == {Red, Teal}
Alphas == {I(0), Half, I(1)}

\* The coverage of a pixel at distance sqrt(1/2) from a stroke of width 1.
CornerBlend == <<I(1), I(-1), Half>>
Blends == {R(Q(1, 4)), CornerBlend, R(I(1))}

PixelInit ==
    /\ pixel = createImageData(1, 1)
    /\ written = [x |-> 0, r |-> I(0), g |-> I(0), b |-> I(0), a |-> I(0),
                  blend |-> R(I(0)), old |-> <<0, 0, 0, 0>>]
    /\ opaque = TRUE
    /\ writes = 0

\* drawPixel(data, x, 0, r, g, b, a, blend)
DrawPixel(x, c, a, blend) ==
    /\ writes < MaxWrites
    /\ pixel' = drawPixel(pixel, x, 0, c.r, c.g, c.b, a, blend)
    /\ written' = [x |-> x, r |-> c.r, g |-> c.g, b |-> c.b, a |-> a,
                   blend |-> blend, old |-> PixelAt(pixel, 0, 0)]
    /\ opaque' = (opaque /\ a = I(1))
    /\ writes' = writes + 1
    /\ UNCHANGED <<contextVars, strokeVars, rasterVars, doubleVars>>

NextPixel ==
    \E x \in -1 .. 1, c \in Colours, a \in Alphas, blend \in Blends :
        DrawPixel(x, c, a, blend)

(***************************************************************************)
(* One buffer: drawLine called on it, first for segments of earlier        *)
(* strokes, then for one straight stroke of two segments p0 -> p1 -> p2.   *)
(* The second image is given the same calls, but the stroke as the one     *)
(* segment p0 -> p2.                                                       *)
(***************************************************************************)
Point(x, y, c, a, w) ==
    [x |-> x, y |-> y, r |-> c.r, g |-> c.g, b |-> c.b, a |-> a, w |-> w]

Segments ==
    { \* a thick red bar over the rows 0 to 3
      [start |-> Point(I(0), Q(3, 2), Red, I(1), I(3)),
       end |-> Point(I(4), Q(3, 2), Red, I(1), I(3))],
      \* a stroke that starts with width 0 and ends with width 2
      [start |-> Point(I(0), I(0), Red, I(1), I(0)),
       end |-> Point(I(2), I(2), Red, I(1), I(2))],
      \* a vertical red line on a column of pixels
      [start |-> Point(I(2), I(0), Red, I(1), I(1)),
       end |-> Point(I(2), I(3), Red, I(1), I(1))],
      \* a translucent bar
      [start |-> Point(I(0), I(2), Teal, Half, I(2)),
       end |-> Point(I(4), I(1), Teal, Half, I(2))],
      \* a dot
      [start |-> Point(I(2), Q(3, 2), Red, I(1), I(3)),
       end |-> Point(I(2), Q(3, 2), Red, I(1), I(3))],
      \* a line drawn to the left on a row of pixels
      [start |-> Point(I(4), I(2), Red, I(1), I(1)),
       end |-> Point(I(0), I(2), Red, I(1), I(1))] }

Straight(x0, y0, x1, y1, x2, y2, c, a, w) ==
    [p0 |-> Point(x0, y0, c, a, w), p1 |-> Point(x1, y1, c, a, w),
     p2 |-> Point(x2, y2, c, a, w)]

Joins ==
    { Straight(I(0), Q(3, 2), I(2), Q(3, 2), I(4), Q(3, 2), Green, I(1), I(1)),
      Straight(I(1), I(1), I(2), I(1), I(3), I(1), Green, I(1), I(1)),
      Straight(I(0), Q(3, 2), I(1), Q(3, 2), I(4), Q(3, 2), Green, I(1), I(2)),
      Straight(I(0), I(0), I(1), I(1), I(3), I(3), Green, I(1), I(1)),
      Straight(Q(3, 2), I(3), Q(3, 2), Q(3, 2), Q(3, 2), I(0), Green, I(1), I(1)),
      Straight(I(0), Q(3, 2), I(2), Q(3, 2), I(4), Q(3, 2), Green, Half, I(1)),
      \* a stroke half a pixel wide along a row of pixels
      Straight(I(1), I(1), I(2), I(1), I(3), I(1), Green, I(1), Half) }

Called(start, end, visits) == [start |-> start, end |-> end, visits |-> visits]

NoCall == Called(DefaultPoint, DefaultPoint, <<>>)

RasterInit ==
    /\ buffer = createImageData(W, H)
    /\ whole = createImageData(W, H)
    /\ rpc = "earlier"
    /\ join = Straight(I(0), I(0), I(0), I(0), I(0), I(0), Red, I(0), I(0))
    /\ lastCall = NoCall
    /\ earlier = 0

\* The history of drawLine(buffer, start, end).
\* drawLine(buffer, start, end)
OnBuffer(start, end) ==
    LET Returned(rs) ==
            /\ buffer' = rs.img
            /\ lastCall' = Called(start, end, rs.visits)
    IN  Returned(drawLine(buffer, start, end))

\* A segment of an earlier stroke, on both images.
Earlier(seg) ==
    /\ rpc = "earlier"
    /\ earlier < MaxEarlier
    /\ OnBuffer(seg.start, seg.end)
    /\ whole' = drawLine(whole, seg.start, seg.end).img
    /\ earlier' = earlier + 1
    /\ UNCHANGED <<rpc, join>>
    /\ UNCHANGED <<contextVars, strokeVars, pixelVars, doubleVars>>

\* The start cap of the stroke, on both images.
JoinCap(j) ==
    /\ rpc = "earlier"
    /\ join' = j
    /\ OnBuffer(j.p0, j.p0)
    /\ whole' = drawLine(whole, j.p0, j.p0).img
    /\ rpc' = "first"
    /\ UNCHANGED earlier
    /\ UNCHANGED <<contextVars, strokeVars, pixelVars, doubleVars>>

\* The segment p0 -> p1.
JoinFirst ==
    /\ rpc = "first"
    /\ OnBuffer(join.p0, join.p1)
    /\ rpc' = "second"
    /\ UNCHANGED <<whole, join, earlier>>
    /\ UNCHANGED <<contextVars, strokeVars, pixelVars, doubleVars>>

\* The segment p1 -> p2; the second image is given p0 -> p2.
JoinSecond ==
    /\ rpc = "second"
    /\ OnBuffer(join.p1, join.p2)
    /\ whole' = drawLine(whole, join.p0, join.p2).img
    /\ rpc' = "done"
    /\ UNCHANGED <<join, earlier>>
    /\ UNCHANGED <<contextVars, strokeVars, pixelVars, doubleVars>>

NextRaster ==
    \/ \E seg \in Segments : Earlier(seg)
    \/ \E j \in Joins : JoinCap(j)
    \/ JoinFirst
    \/ JoinSecond

(***************************************************************************)
(* One drawLine call on doubles.  The numbers above are exact, and cannot  *)
(* be as small as a double can: here the steps of drawLine and             *)
(* drawLinePixel up to the test dx === 0 are followed on IEEE-754 doubles  *)
(* that are 0 or a power of two with a sign, <<sign, exp>> for             *)
(* sign * 2^exp.  The exponents drawn differ by more than 54, so that a    *)
(* difference of two such doubles is exact or rounds to the operand of     *)
(* larger magnitude.                                                       *)
(***************************************************************************)
Dbl(s, e) == [sign |-> s, exp |-> e]
DZero == Dbl(0, 0)

\* The exponent of the smallest positive double, 2^-1074.
SmallestExponent == 0 - 1074

dNeg(a) == Dbl(0 - a.sign, a.exp)
dAbs(a) == Dbl(a.sign * a.sign, a.exp)

\* a - b, rounded to nearest.
dSub(a, b) ==
    IF b.sign = 0 THEN a
    ELSE IF a.sign = 0 THEN dNeg(b)
    ELSE IF a.exp = b.exp
    THEN IF a.sign = b.sign THEN DZero ELSE Dbl(a.sign, a.exp + 1)
    ELSE IF a.exp > b.exp THEN a ELSE dNeg(b)

\* a > b
dGt(a, b) == dSub(a, b).sign > 0

\* a ** 2, rounded to nearest: 0 when the square is below half of 2^-1074,
\* and on the tie.
dSquare(a) ==
    IF a.sign = 0 \/ 2 * a.exp < SmallestExponent THEN DZero
    ELSE Dbl(1, 2 * a.exp)

dNegX(p) == [p EXCEPT !.x = dNeg(p.x)]

dSwapped(steep, start, end) ==
    [steep |-> steep, reverse |-> dGt(start.x, end.x),
     start |-> IF dGt(start.x, end.x) THEN dNegX(start) ELSE start,
     end |-> IF dGt(start.x, end.x) THEN dNegX(end) ELSE end]

\* The two points after the swap and the negation of drawLine.
dNormalise(start, end) ==
    IF dGt(dAbs(dSub(start.y, end.y)), dAbs(dSub(start.x, end.x)))
    THEN dSwapped(TRUE, swapXY(start), swapXY(end))
    ELSE dSwapped(FALSE, start, end)

\* What drawLine and drawLinePixel compute of the two points: whether the
\* slope is a quotient, dx, dy, whether dx ** 2 + dy ** 2 is 0 (a sum of two
\* squares is 0 when both are), and whether t is set to 0.
dProjection(start, end, n) ==
    [called |-> TRUE, start |-> start, end |-> end,
     steep |-> n.steep, reverse |-> n.reverse,
     slopeDivides |-> n.end.x # n.start.x,
     dx |-> dSub(n.end.x, n.start.x),
     dy |-> dSub(n.end.y, n.start.y),
     zeroDenominator |-> /\ dSquare(dSub(n.end.x, n.start.x)) = DZero
                         /\ dSquare(dSub(n.end.y, n.start.y)) = DZero,
     forced |-> dSub(n.end.x, n.start.x) = DZero]

Exponents == {0 - 600, 0 - 530, 0}
Doubles == {DZero} \cup {Dbl(s, e) : s \in {-1, 1}, e \in Exponents}

DoubleInit ==
    projected = [called |-> FALSE, start |-> [x |-> DZero, y |-> DZero],
                 end |-> [x |-> DZero, y |-> DZero], steep |-> FALSE,
                 reverse |-> FALSE, slopeDivides |-> FALSE, dx |-> DZero,
                 dy |-> DZero, zeroDenominator |-> TRUE, forced |-> TRUE]

\* drawLine(data, lineStart, Object.assign({}, lineEnd)), up to the test
\* dx === 0 of drawLinePixel: a segment starts where the last one ended.
Project(end) ==
    /\ projected' = dProjection(projected.end, end, dNormalise(projected.end, end))
    /\ UNCHANGED <<contextVars, strokeVars, pixelVars, rasterVars>>

NextDouble == \E ex \in Doubles, ey \in Doubles : Project([x |-> ex, y |-> ey])

(***************************************************************************)
(* Specifications.  Each follows one part of the program and leaves the    *)
(* state of the others as constructed: Spec a Context, SpecStroke a        *)
(* Stroke, SpecPixel a pixel, SpecRaster a buffer.                         *)
(***************************************************************************)
Init == ContextInit /\ StrokeInit /\ PixelInit /\ RasterInit /\ DoubleInit

Spec == Init /\ [][Next]_vars

SpecStroke == Init /\ [][NextStroke]_vars

SpecPixel == Init /\ [][NextPixel]_vars

SpecRaster == Init /\ [][NextRaster]_vars

SpecDouble == Init /\ [][NextDouble]_vars

(***************************************************************************)
(* Properties                                                              *)
(***************************************************************************)
Blank == createImageData(W, H)
Transparent == <<0, 0, 0, 0>>
ThePixel == PixelAt(pixel, 0, 0)

\* The last drawPixel call was made on the pixel, found it fully opaque and
\* had a coverage below 1: the call took the second branch.
BlendedOverOpaque ==
    /\ writes > 0
    /\ written.x = 0
    /\ written.old[4] = 255
    /\ SLt(written.blend, R(I(1)))

\* The alpha of the source-over composite: (1 - blend) * 1 + blend * a.
CompositeAlpha == lerpS(written.blend, R(I(1)), R(clamp(written.a)))

\* A channel of the source-over composite, for the incoming channel c and
\* the old byte: ((1 - blend) * old + blend * c * a) / alpha.
CompositeChannel(old, c) ==
    SDiv(lerpS(written.blend, R(I(old)),
               R(Times(floorByte(c), clamp(written.a)))), CompositeAlpha)

\* C1: when drawPixel finds the pixel fully opaque and is given a coverage
\* below 1, the pixel it writes is the source-over composite of the incoming
\* colour over the old one: alpha (1 - blend) + blend * a, and each channel
\* ((1 - blend) * old + blend * c * a) / alpha.
C1_SourceOver ==
    BlendedOverOpaque =>
        ThePixel = <<ToUint8Clamped(CompositeChannel(written.old[1], written.r)),
                     ToUint8Clamped(CompositeChannel(written.old[2], written.g)),
                     ToUint8Clamped(CompositeChannel(written.old[3], written.b)),
                     ToUint8Clamped(R(SFloorByte(SMul(CompositeAlpha, R(I(255))))))>>

\* C2: while every drawPixel call has a = 1, no call lowers the alpha of the
\* pixel, and a fully opaque pixel stays fully opaque.
C2_AlphaNeverDecreases ==
    [][(opaque' /\ writes' = writes + 1) =>
          /\ PixelAt(pixel', 0, 0)[4] >= ThePixel[4]
          /\ (ThePixel[4] = 255 => PixelAt(pixel', 0, 0)[4] = 255)]_vars

\* A pixel made fully opaque by calls with a = 1 has been written again with
\* a coverage below 1, and is still fully opaque.
C2_Witness == opaque /\ BlendedOverOpaque /\ ThePixel[4] = 255

\* C3: a straight stroke of constant colour, alpha and width drawn as the
\* two segments p0 -> p1, p1 -> p2 leaves every pixel as drawing it as the
\* one segment p0 -> p2 does, whatever was drawn before it.
C3_JoinNotBlendedTwice == rpc = "done" => buffer = whole

\* C4: the opaque red horizontal line of width 1 from (1, 1) to (3, 1),
\* alone in the context, leaves exactly the pixels (1, 1), (2, 1), (3, 1)
\* opaque red and every other pixel untouched.
C4_HorizontalLine ==
    (pc = "present" /\ strokes = <<HLine>>) =>
        \A x \in 0 .. W - 1, y \in 0 .. H - 1 :
            PixelAt(data, x, y) =
                IF y = 1 /\ x >= 1 /\ x <= 3 THEN <<255, 0, 0, 255>> ELSE Transparent

\* The stroke the j-th drawLine call of a draw belongs to, and its number.
StrokeOfCall(j) == ((j - 1) \div (segmentation + 1)) + 1
NumberOfCall(j) == (j - 1) % (segmentation + 1)

\* C5: draw rasterizes the strokes added since the last clear, in the order
\* they were added, into a fresh transparent image (none added: nothing is
\* written); it changes neither the strokes nor the default point nor the
\* segmentation, and a second draw of the same context gives the same image.
C5_DrawsWhatWasAdded ==
    /\ [](strokes = added)
    /\ []((pc # "idle" /\ calls = <<>>) => data = Blank)
    /\ [](pc = "present" =>
            /\ Len(calls) = Len(added) * (segmentation + 1)
            /\ \A j \in 1 .. Len(calls) : calls[j].stroke = StrokeOfCall(j)
            /\ (added = <<>> => data = Blank)
            /\ (rendered.width # 0 => data = rendered))
    /\ [][pc # "idle" =>
            /\ strokes' = strokes
            /\ default' = default
            /\ segmentation' = segmentation]_vars

\* A context of two different strokes has been drawn twice in a row.
C5_Witness ==
    /\ pc = "present"
    /\ Len(strokes) = 2
    /\ strokes[1] # strokes[2]
    /\ segmentation = MaxSeg
    /\ rendered = data

\* The point draw resolves for sample k of a stroke.
ResolvedAt(s, k) ==
    resolvePoint(default, evaluate(s, IF k = 0 THEN I(0) ELSE Q(k, segmentation)))

\* C6: for each stroke draw makes segmentation + 1 drawLine calls, in this
\* order: the cap (p0, p0), then (p(k-1), pk) for k = 1 .. segmentation, pk
\* the default point overridden by the sample at k / segmentation; the
\* calls receive exactly these points.
C6_CallsInOrder ==
    /\ \A j \in 1 .. Len(calls) :
          /\ calls[j].stroke = StrokeOfCall(j)
          /\ calls[j].k = NumberOfCall(j)
          /\ calls[j].end = ResolvedAt(strokes[StrokeOfCall(j)], NumberOfCall(j))
          /\ calls[j].start =
                ResolvedAt(strokes[StrokeOfCall(j)],
                           IF NumberOfCall(j) = 0 THEN 0 ELSE NumberOfCall(j) - 1)
    /\ pc = "present" => Len(calls) = Len(strokes) * (segmentation + 1)

\* All the calls of a draw of two strokes are made, and drawLine has swapped
\* or negated the coordinates of a lineStart it was given.
C6_Witness ==
    /\ pc = "present"
    /\ segmentation = MaxSeg
    /\ Len(strokes) = 2
    /\ Len(calls) = 2 * (MaxSeg + 1)
    /\ \E j \in 1 .. Len(calls) :
          /\ calls[j].k > 0
          /\ callerStart(calls[j].start, calls[j].end) # numbers(calls[j].start)

\* The interval of [0, 1) that t lies in when it is divided in n: 0 below 0,
\* n - 1 from 1 on.
IntervalOf(u, n) ==
    IF Lt(u, I(0)) THEN 0
    ELSE IF Ge(u, I(1)) THEN n - 1
    ELSE CHOOSE j \in 0 .. n - 1 : Le(Q(j, n), u) /\ Lt(u, Q(j + 1, n))

\* C7: sequence(curves).evaluate(t) is curves[i].evaluate(N * t - i), i the
\* interval of t among N equal ones: t = 1 gives the last curve at 1, a t
\* outside [0, 1] the first or the last curve.
C7_SequenceDispatch ==
    (stroke.op = "sequence" /\ ~IsNaN(input)) =>
        /\ output = evaluate(stroke.strokes[IntervalOf(input, Len(stroke.strokes)) + 1],
                             Minus(Times(I(Len(stroke.strokes)), input),
                                   I(IntervalOf(input, Len(stroke.strokes)))))
        /\ input = I(1) =>
              output = evaluate(stroke.strokes[Len(stroke.strokes)], I(1))

\* A sequence of three strokes, sampled where the last one starts.
C7_Witness ==
    /\ stroke.op = "sequence"
    /\ Len(stroke.strokes) = 3
    /\ input = Q(2, 3)
    /\ output = evaluate(LineBC, I(0))
    /\ output # evaluate(stroke.strokes[2], I(1))

RECURSIVE Binomial(_, _)
Binomial(n, k) ==
    IF k = 0 \/ k = n THEN 1 ELSE Binomial(n - 1, k - 1) + Binomial(n - 1, k)

RECURSIVE Power(_, _)
Power(u, k) == IF k = 0 THEN I(1) ELSE Times(u, Power(u, k - 1))

\* sum over i < k of C(n, i) * (1 - u)^(n - i) * u^i * values[i + 1]
RECURSIVE BernsteinSum(_, _, _, _)
BernsteinSum(u, values, n, k) ==
    IF k = 0 THEN I(0)
    ELSE Plus(BernsteinSum(u, values, n, k - 1),
              Times(Times(I(Binomial(n, k - 1)),
                          Times(Power(Minus(I(1), u), n - k + 1), Power(u, k - 1))),
                    values[k]))

\* The point at u of the Bezier curve of the control values.
Bernstein(u, values) == BernsteinSum(u, values, Len(values) - 1, Len(values))

OnEveryPoint(k) == \A i \in 1 .. Len(stroke.points) : k \in DOMAIN stroke.points[i]

ControlValues(k) == [i \in 1 .. Len(stroke.points) |-> stroke.points[i][k]]

\* C8: of curve.bezier(p1 .. pn) at t, a field every control point has is
\* the Bezier interpolation of its control values (p1's at 0, pn's at 1,
\* (1 - t) * a + t * b for two points); every other field is as the parent
\* curve gives it at t.
C8_BezierFields ==
    (stroke.op = "bezier" /\ ~IsNaN(input)) =>
        \A k \in Props :
            IF OnEveryPoint(k)
            THEN /\ k \in DOMAIN output
                 /\ output[k] = Bernstein(input, ControlValues(k))
                 /\ input = I(0) => output[k] = stroke.points[1][k]
                 /\ input = I(1) => output[k] = stroke.points[Len(stroke.points)][k]
                 /\ Len(stroke.points) = 2 =>
                       output[k] = Plus(Times(Minus(I(1), input), stroke.points[1][k]),
                                        Times(input, stroke.points[2][k]))
            ELSE /\ k \in DOMAIN output <=> k \in DOMAIN evaluate(stroke.this, input)
                 /\ k \in DOMAIN output => output[k] = evaluate(stroke.this, input)[k]

\* A curve of three control points over a parent that fixes w, sampled
\* inside: w is on two of the control points only and stays the parent's.
C8_Witness ==
    /\ stroke.op = "bezier"
    /\ Len(stroke.points) = 3
    /\ input = Q(1, 3)
    /\ ~OnEveryPoint("w") /\ "w" \in DOMAIN stroke.points[2]
    /\ "w" \in DOMAIN output /\ output["w"] = I(2)
    /\ "x" \in DOMAIN output /\ output["x"] = I(2)

\* result is over merged onto under, a field of over counting only when its
\* value is defined.
MergedWhereDefined(result, under, over) ==
    \A k \in Props :
        Get(result, k) = IF Get(over, k) # Undefined THEN over[k] ELSE Get(under, k)

\* C9: in the merges of parametric, transform and fix over the parent's
\* sample, and of the sample over the default point, a field is the
\* overriding value when that is defined and the underlying value
\* otherwise, also when the overriding record has the field with the value
\* undefined.
C9_UndefinedFallsThrough ==
    ~IsNaN(input) =>
        /\ stroke.op = "parametric" =>
              MergedWhereDefined(output, evaluate(stroke.this, input),
                                 applyParametric(stroke.f, input))
        /\ stroke.op = "transform" =>
              MergedWhereDefined(output, evaluate(stroke.this, input),
                                 applyTransform(stroke.f, evaluate(stroke.this, input)))
        /\ stroke.op = "fix" =>
              MergedWhereDefined(output, evaluate(stroke.this, input), stroke.point)
        /\ MergedWhereDefined(resolved, default, output)

\* The last drawLine call as drawLine sees it after its swap and negation.
lastLine == normalise(lastCall.start, lastCall.end)
lastColumns == {lastCall.visits[i].x : i \in 1 .. Len(lastCall.visits)}
lastDrawn ==
    {<<lastCall.visits[i].x, lastCall.visits[i].y>> :
        i \in {j \in 1 .. Len(lastCall.visits) : lastCall.visits[j].drawn}}
Rows == (0 - W - H) .. (W + H)
lastPixel(x, y) == linePixel(x, y, lastLine.start, lastLine.end)

\* The order of two reals p + c * sqrt(q) whose radicands may differ: -1, 0
\* or 1.  For a real x, Squared(x) is sgn(x) * x^2, which orders as x does.
Squared(a) == Times(I(Sgn(a)), Times(a, a))
RootSquared(s) == Times(I(Sgn(s[2])), Times(Times(s[2], s[2]), s[3]))
RealSgn(sa, sb, k, xy) ==
    IF sa = 0 THEN sb
    ELSE IF sb = 0 \/ sa = sb THEN sa
    ELSE sa * Cmp(Squared(k), Neg(Times(I(4), xy)))
RealCmp(u, v) ==
    RealSgn(Sgn(Minus(u[1], v[1])), Cmp(RootSquared(u), RootSquared(v)),
            Minus(Minus(Times(Minus(u[1], v[1]), Minus(u[1], v[1])),
                        MathAbs(RootSquared(u))), MathAbs(RootSquared(v))),
            Times(RootSquared(u), RootSquared(v)))
NotMore(u, v) == RealCmp(u, v) <= 0

\* C10: in each column drawLine scans, the coverage does not increase from
\* a pixel to the next one away from the line, in both directions, and no
\* pixel of the column with a coverage other than 0 and t >= 0 is left out
\* by a scan that stopped at a pixel of coverage 0.
C10_ScanSkipsNothing ==
    \A x \in lastColumns, y \in Rows :
        /\ Ge(I(y), MathCeil(lineYAt(x, lastLine.start, lastLine.end))) =>
              NotMore(lastPixel(x, y + 1).blend, lastPixel(x, y).blend)
        /\ Le(I(y), MathFloor(lineYAt(x, lastLine.start, lastLine.end))) =>
              NotMore(lastPixel(x, y - 1).blend, lastPixel(x, y).blend)
        /\ (~SEq(lastPixel(x, y).blend, R(I(0))) /\ ~lastPixel(x, y).isStartCap) =>
              <<x, y>> \in lastDrawn

\* The visits of the last drawLine call in which drawPixel was called on a
\* pixel of the image.
lastComposited ==
    {i \in 1 .. Len(lastCall.visits) :
        lastCall.visits[i].drawn /\ lastCall.visits[i].old # <<>>}

\* C12: within one drawLine call no pixel is composited twice: the scan
\* downward from the ceiling of lineY and the scan upward from its floor
\* never both call drawPixel on the same pixel, so a partially covered pixel
\* over a fully opaque one is blended once.
C12_CompositedOnce ==
    \A i \in lastComposited, j \in lastComposited :
        lastCall.visits[i].px = lastCall.visits[j].px => i = j

\* C11: in every drawLine call, after the swap and the negation, t is set
\* to 0 exactly when start and end are at the same position: dx is 0 if and
\* only if dx and dy both are, so that no t and no slope that comes from a
\* denominator of 0 is used, and t is left alone when the positions differ.
C11_NoZeroDenominator ==
    projected.called =>
        /\ projected.forced <=> (projected.dx = DZero /\ projected.dy = DZero)
        /\ projected.forced <=> projected.start = projected.end
        /\ projected.slopeDivides => projected.dx # DZero
        /\ ~projected.forced => ~projected.zeroDenominator
====
